---- MODULE Spec2Model ----
(***************************************************************************)
(* A model of admin-api-examples.py: the PlatformAdminManager class (five  *)
(* single-instance operations, two bulk operations) and the command-line   *)
(* entry point main().                                                     *)
(*                                                                         *)
(* The remote side is the environment: every call of requests.get or       *)
(* requests.post is answered by a nondeterministically chosen Answer,      *)
(* either an exception raised by the transport or a Response with a status *)
(* code and a body text.  One such call is one "request" of the model;     *)
(* what the library does on the wire inside that call is not modelled.     *)
(***************************************************************************)
EXTENDS Integers, Sequences, FiniteSets, TLC

VARIABLES
    manager,   \* the PlatformAdminManager object: admin_key and headers
    pc,        \* "idle", "cli", a bulk loop, "returned", "exit" or "raised"
    call,      \* the arguments of the operation in progress / last completed
    i,         \* position of the bulk loop in call.instance_urls (1-based)
    results,   \* the bulk loop's results dict, in insertion order
    trace,     \* what the operation did so far: prints, requests, returns
    ret,       \* the value returned by the last completed operation
    raised     \* the exception type the last operation terminated with, or ""

vars == <<manager, pc, call, i, results, trace, ret, raised>>

(***************************************************************************)
(* Bounds and input domains                                                *)
(***************************************************************************)
MaxInstances == 3

AdminKeys == {"key-A", "key-B"}

InstanceURLs == {"https://acme-corp.msplatform.com",
                 "https://techstart-inc.msplatform.com",
                 "https://globalservices.msplatform.com"}

RECURSIVE SeqsUpTo(_, _)
SeqsUpTo(S, n) ==
    IF n = 0 THEN {<<>>}
    ELSE LET shorter == SeqsUpTo(S, n - 1)
         IN  shorter \cup {Append(s, x) : s \in {t \in shorter : Len(t) = n - 1}, x \in S}

InstanceLists == SeqsUpTo(InstanceURLs, MaxInstances)

(***************************************************************************)
(* JSON documents.  A value is a tagged record; dumps serialises it to a   *)
(* text (a sequence of tokens) and loads parses a text back, failing on a  *)
(* text that is no serialisation of a JSON value.                          *)
(***************************************************************************)
JsonNull == [t |-> "null", v |-> <<>>]

JsonObject(keys) == [t |-> "object", v |-> keys]

IntegrationConfigs == {JsonObject(<<"integrationName", "version", "defaultConfig">>),
                       JsonObject(<<"migrationId", "sqlStatements">>)}

ResponseDocuments == {JsonNull, JsonObject(<<"success", "data">>)}

JsonValues == IntegrationConfigs \cup ResponseDocuments \cup {JsonObject(<<>>)}

dumps(value) ==
    IF value.t = "null" THEN <<"null">>
    ELSE <<"{">> \o value.v \o <<"}">>

IsJson(text) == \E value \in JsonValues : dumps(value) = text

loads(text) == CHOOSE value \in JsonValues : dumps(value) = text

(***************************************************************************)
(* Completions: a piece of code either returns a value or raises.          *)
(***************************************************************************)
Return(value) == [kind |-> "return", value |-> value]

Raise(type, msg) == [kind |-> "raise", type |-> type, msg |-> msg]

(***************************************************************************)
(* The requests library, as the program uses it.                           *)
(***************************************************************************)
requests_get(url, headers, timeout) ==
    [method |-> "GET", url |-> url, headers |-> headers, body |-> <<>>,
     timeout |-> timeout]

requests_post(url, headers, json, timeout) ==
    [method |-> "POST", url |-> url, headers |-> headers, body |-> dumps(json),
     timeout |-> timeout]

StatusCodes == {101, 200, 201, 304, 404, 503}

ResponseTexts == {dumps(d) : d \in ResponseDocuments} \cup {<<>>, <<"<html>">>}

TransportErrors == {"ConnectionError", "Timeout", "ChunkedEncodingError"}

Answers ==
    [kind : {"response"}, status_code : StatusCodes, text : ResponseTexts, type : {""}]
    \cup [kind : {"exception"}, status_code : {0}, text : {<<>>}, type : TransportErrors]

\* The answers drawn inside the bulk loops: one success, one HTTP error and
\* one transport failure per instance.
BulkAnswers ==
    {a \in Answers :
        \/ a.kind = "response" /\ a.status_code = 200
                               /\ a.text = dumps(JsonObject(<<"success", "data">>))
        \/ a.kind = "response" /\ a.status_code = 503 /\ a.text = <<"<html>">>
        \/ a.kind = "exception" /\ a.type = "ConnectionError"}

\* Response.raise_for_status(): HTTPError for 4xx and 5xx, nothing otherwise.
raise_for_status(response, url) ==
    IF 400 <= response.status_code /\ response.status_code < 500
    THEN Raise("HTTPError", ToString(response.status_code) \o " Client Error for url: " \o url)
    ELSE IF 500 <= response.status_code /\ response.status_code < 600
    THEN Raise("HTTPError", ToString(response.status_code) \o " Server Error for url: " \o url)
    ELSE Return("None")

\* Response.json(): the parsed body, or JSONDecodeError.
response_json(response) ==
    IF IsJson(response.text) THEN Return(loads(response.text))
    ELSE Raise("JSONDecodeError", "Expecting value: line 1 column 1 (char 0)")

\* Every exception the library raises here derives from Exception.
IsException(type) == type \in TransportErrors \cup {"HTTPError", "JSONDecodeError"}

(***************************************************************************)
(* PlatformAdminManager                                                    *)
(***************************************************************************)
\* Mutant: the Authorization header built with the wrong scheme.
PlatformAdminManager_bearer(admin_key) ==
    [admin_key |-> admin_key,
     headers   |-> [Authorization |-> "Bearer " \o admin_key,
                    ContentType   |-> "application/json"]]

PlatformAdminManager(admin_key) ==
    [admin_key |-> admin_key,
     headers   |-> [Authorization |-> "Admin " \o admin_key,
                    ContentType   |-> "application/json"]]

\* Mutant: the raw body text returned instead of the parsed JSON.
try_body_text(request, answer) ==
    IF answer.kind = "exception"
    THEN Raise(answer.type, answer.type \o " for url: " \o request.url)
    ELSE LET checked == raise_for_status(answer, request.url)
             parsed  == response_json(answer)
         IN  IF checked.kind = "raise" THEN checked
             ELSE IF parsed.kind = "raise" THEN parsed
             ELSE Return([status |-> "success", data |-> answer.text])

\* The body of the try block after the request was sent:
\*   response.raise_for_status(); return {"status": "success", "data": response.json()}
try_body(request, answer) ==
    IF answer.kind = "exception"
    THEN Raise(answer.type, answer.type \o " for url: " \o request.url)
    ELSE LET checked == raise_for_status(answer, request.url)
             parsed  == response_json(answer)
         IN  IF checked.kind = "raise" THEN checked
             ELSE IF parsed.kind = "raise" THEN parsed
             ELSE Return([status |-> "success", data |-> parsed.value])

\* Mutant: except requests.HTTPError, which lets every other exception through.
except_HTTPError(completion) ==
    IF completion.kind = "raise" /\ completion.type = "HTTPError"
    THEN Return([status |-> "error", error |-> completion.msg])
    ELSE completion

\* except Exception as e: return {"status": "error", "error": str(e)}
except_Exception(completion) ==
    IF completion.kind = "raise" /\ IsException(completion.type)
    THEN Return([status |-> "error", error |-> completion.msg])
    ELSE completion

\* Mutant: a failed request is sent a second time.
Effect_retry(request, answer) ==
    LET event      == [kind |-> "request", request |-> request, answer |-> answer]
        completion == except_Exception(try_body(request, answer))
    IN  [sent       |-> IF completion.kind = "return" /\ completion.value.status = "success"
                        THEN <<event>> ELSE <<event, event>>,
         completion |-> completion]

\* What one single-instance operation does: the requests it sends (with the
\* answer each received) and how it completes.
Effect(request, answer) ==
    [sent       |-> <<[kind |-> "request", request |-> request, answer |-> answer]>>,
     completion |-> except_Exception(try_body(request, answer))]

ping(self, instance_url, answer) ==
    Effect(requests_get(instance_url \o "/api/admin/ping", self.headers, 10), answer)

health_check(self, instance_url, answer) ==
    Effect(requests_get(instance_url \o "/api/admin/health", self.headers, 30), answer)

system_info(self, instance_url, answer) ==
    Effect(requests_get(instance_url \o "/api/admin/info", self.headers, 15), answer)

\* Mutant: a default is added to the config before it is sent.
deploy_integration_defaults(self, instance_url, integration_config, answer) ==
    Effect(requests_post(instance_url \o "/api/admin/integrations/deploy", self.headers,
                         JsonObject(integration_config.v \o <<"enabled">>), 60), answer)

deploy_integration(self, instance_url, integration_config, answer) ==
    Effect(requests_post(instance_url \o "/api/admin/integrations/deploy",
                         self.headers, integration_config, 60), answer)

execute_migration(self, instance_url, migration_config, answer) ==
    Effect(requests_post(instance_url \o "/api/admin/migrations/execute",
                         self.headers, migration_config, 120), answer)

\* Mutant: only successful outcomes are stored.
DictSet_skip_errors(dict, key, value) ==
    IF value.status = "error" THEN dict
    ELSE IF \E k \in 1..Len(dict) : dict[k].key = key
    THEN [k \in 1..Len(dict) |->
            IF dict[k].key = key THEN [key |-> key, value |-> value] ELSE dict[k]]
    ELSE Append(dict, [key |-> key, value |-> value])

\* Mutant: results.setdefault(url, value), the first outcome of a key is kept.
DictSet_setdefault(dict, key, value) ==
    IF \E k \in 1..Len(dict) : dict[k].key = key THEN dict
    ELSE Append(dict, [key |-> key, value |-> value])

\* results[url] = value on a dict that keeps insertion order: an existing key
\* keeps its position and takes the new value, a new key goes to the end.
DictSet(dict, key, value) ==
    IF \E k \in 1..Len(dict) : dict[k].key = key
    THEN [k \in 1..Len(dict) |->
            IF dict[k].key = key THEN [key |-> key, value |-> value] ELSE dict[k]]
    ELSE Append(dict, [key |-> key, value |-> value])

Keys(dict) == [k \in 1..Len(dict) |-> dict[k].key]

HealthNotice(url) == [kind |-> "print", text |-> "Checking health for " \o url \o "..."]

DeployNotice(url) == [kind |-> "print", text |-> "Deploying integration to " \o url \o "..."]

Completed(completion) == [kind |-> "completed", completion |-> completion]

NoConfig == [t |-> "none", v |-> <<>>]

(***************************************************************************)
(* The command line: main()                                                *)
(***************************************************************************)
Actions == {"ping", "health", "info", "deploy", "migrate"}

\* The files the --config-file argument may name: absent, not JSON, or JSON.
FileNames == {"missing.json", "invalid.json", "deploy.json", "migrate.json"}

FileExists(path) == path \in {"invalid.json", "deploy.json", "migrate.json"}

FileText(path) ==
    IF path = "deploy.json"
    THEN dumps(JsonObject(<<"integrationName", "version", "defaultConfig">>))
    ELSE IF path = "migrate.json"
    THEN dumps(JsonObject(<<"migrationId", "sqlStatements">>))
    ELSE <<"<html>">>

\* args.config_file: None when the option is absent, else the string given.
ConfigFileArgs ==
    {[given |-> FALSE, path |-> ""], [given |-> TRUE, path |-> ""]}
    \cup [given : {TRUE}, path : FileNames]

\* Mutant: the check for a missing --config-file is left out.
Falsy_unchecked(config_file) == FALSE

\* not args.config_file
Falsy(config_file) == ~config_file.given \/ config_file.path = ""

\* with open(args.config_file, 'r') as f: config = json.load(f)
load_config(config_file) ==
    IF ~FileExists(config_file.path)
    THEN Raise("FileNotFoundError", "No such file or directory: " \o config_file.path)
    ELSE IF ~IsJson(FileText(config_file.path))
    THEN Raise("JSONDecodeError", "Expecting value: line 1 column 1 (char 0)")
    ELSE Return(loads(FileText(config_file.path)))

\* An operation called from main: its result is printed as JSON, and an
\* exception it raises leaves main.
RunAndPrint(effect) ==
    [events     |-> effect.sent \o <<Completed(effect.completion)>>
                    \o (IF effect.completion.kind = "return"
                        THEN <<[kind |-> "print_json", value |-> effect.completion.value]>>
                        ELSE <<>>),
     completion |-> IF effect.completion.kind = "return" THEN Return("None")
                    ELSE effect.completion]

main(args, answer) ==
    LET self == PlatformAdminManager(args.admin_key)
    IN  IF args.action = "ping" THEN RunAndPrint(ping(self, args.instance, answer))
        ELSE IF args.action = "health"
        THEN RunAndPrint(health_check(self, args.instance, answer))
        ELSE IF args.action = "info"
        THEN RunAndPrint(system_info(self, args.instance, answer))
        ELSE IF Falsy(args.config_file)
        THEN [events     |-> <<[kind |-> "print",
                                text |-> "--config-file required for "
                                         \o args.action \o " action"]>>,
              completion |-> Return("None")]
        ELSE LET config == load_config(args.config_file)
             IN  IF config.kind = "raise"
                 THEN [events |-> <<>>, completion |-> config]
                 ELSE IF args.action = "deploy"
                 THEN RunAndPrint(deploy_integration(self, args.instance,
                                                     config.value, answer))
                 ELSE RunAndPrint(execute_migration(self, args.instance,
                                                    config.value, answer))

(***************************************************************************)
(* The state machine                                                       *)
(***************************************************************************)
Init ==
    /\ \E admin_key \in AdminKeys : manager = PlatformAdminManager(admin_key)
    /\ pc \in {"idle", "cli"}
    /\ call = [op |-> "", instance_urls |-> <<>>, config |-> NoConfig]
    /\ i = 0
    /\ results = <<>>
    /\ trace = <<>>
    /\ ret = "None"
    /\ raised = ""

\* A single-instance operation called by library code, start to finish.
Single(op, instance_url, config, effect) ==
    /\ pc = "idle"
    /\ call' = [op |-> op, instance_urls |-> <<instance_url>>, config |-> config]
    /\ trace' = effect.sent \o <<Completed(effect.completion)>>
    /\ IF effect.completion.kind = "return"
       THEN /\ ret' = effect.completion.value
            /\ raised' = ""
            /\ pc' = "returned"
       ELSE /\ ret' = "None"
            /\ raised' = effect.completion.type
            /\ pc' = "raised"
    /\ i' = 0
    /\ results' = <<>>
    /\ UNCHANGED manager

Ping ==
    \E instance_url \in InstanceURLs, answer \in Answers :
        Single("ping", instance_url, NoConfig, ping(manager, instance_url, answer))

HealthCheck ==
    \E instance_url \in InstanceURLs, answer \in Answers :
        Single("health_check", instance_url, NoConfig,
               health_check(manager, instance_url, answer))

SystemInfo ==
    \E instance_url \in InstanceURLs, answer \in Answers :
        Single("system_info", instance_url, NoConfig,
               system_info(manager, instance_url, answer))

DeployIntegration ==
    \E instance_url \in InstanceURLs, config \in IntegrationConfigs, answer \in Answers :
        Single("deploy_integration", instance_url, config,
               deploy_integration(manager, instance_url, config, answer))

ExecuteMigration ==
    \E instance_url \in InstanceURLs, config \in IntegrationConfigs, answer \in Answers :
        Single("execute_migration", instance_url, config,
               execute_migration(manager, instance_url, config, answer))

\* results = {} and the loop is entered.
BulkStart(op, instance_urls, config) ==
    /\ pc = "idle"
    /\ pc' = op
    /\ call' = [op |-> op, instance_urls |-> instance_urls, config |-> config]
    /\ i' = 1
    /\ results' = <<>>
    /\ trace' = <<>>
    /\ ret' = "None"
    /\ raised' = ""
    /\ UNCHANGED manager

\* Mutant: the progress notice is printed after the call.
BulkIteration_notice_last(url, notice, effect) ==
    /\ trace' = trace \o effect.sent \o <<Completed(effect.completion)>> \o <<notice>>
    /\ IF effect.completion.kind = "return"
       THEN /\ results' = DictSet(results, url, effect.completion.value)
            /\ i' = i + 1
            /\ UNCHANGED <<pc, raised>>
       ELSE /\ raised' = effect.completion.type
            /\ pc' = "raised"
            /\ UNCHANGED <<results, i>>
    /\ UNCHANGED <<manager, call, ret>>

\* One pass of the loop body: print(...) then results[url] = <operation>(url).
\* An exception leaving the operation leaves the loop and the bulk operation.
BulkIteration(url, notice, effect) ==
    /\ trace' = trace \o <<notice>> \o effect.sent \o <<Completed(effect.completion)>>
    /\ IF effect.completion.kind = "return"
       THEN /\ results' = DictSet(results, url, effect.completion.value)
            /\ i' = i + 1
            /\ UNCHANGED <<pc, raised>>
       ELSE /\ raised' = effect.completion.type
            /\ pc' = "raised"
            /\ UNCHANGED <<results, i>>
    /\ UNCHANGED <<manager, call, ret>>

\* return results
BulkReturn(op) ==
    /\ pc = op
    /\ i > Len(call.instance_urls)
    /\ ret' = results
    /\ pc' = "returned"
    /\ results' = <<>>
    /\ i' = 0
    /\ UNCHANGED <<manager, call, trace, raised>>

BulkHealthCheckStart ==
    \E instance_urls \in InstanceLists :
        BulkStart("bulk_health_check", instance_urls, NoConfig)

BulkHealthCheckIteration ==
    /\ pc = "bulk_health_check"
    /\ i <= Len(call.instance_urls)
    /\ \E answer \in BulkAnswers :
        LET url == call.instance_urls[i]
        IN  BulkIteration(url, HealthNotice(url), health_check(manager, url, answer))

BulkHealthCheckReturn == BulkReturn("bulk_health_check")

BulkDeployIntegrationStart ==
    \E instance_urls \in InstanceLists, integration_config \in IntegrationConfigs :
        BulkStart("bulk_deploy_integration", instance_urls, integration_config)

BulkDeployIntegrationIteration ==
    /\ pc = "bulk_deploy_integration"
    /\ i <= Len(call.instance_urls)
    /\ \E answer \in BulkAnswers :
        LET url == call.instance_urls[i]
        IN  BulkIteration(url, DeployNotice(url),
                          deploy_integration(manager, url, call.config, answer))

BulkDeployIntegrationReturn == BulkReturn("bulk_deploy_integration")

\* The caller is done with the value returned to it and goes on to its next
\* call: the operation's locals and its result are gone, the manager stays.
NextCall ==
    /\ pc = "returned"
    /\ pc' = "idle"
    /\ call' = [op |-> "", instance_urls |-> <<>>, config |-> NoConfig]
    /\ i' = 0
    /\ results' = <<>>
    /\ trace' = <<>>
    /\ ret' = "None"
    /\ raised' = ""
    /\ UNCHANGED manager

\* The program run as a command-line tool.
Main ==
    /\ pc = "cli"
    /\ \E action \in Actions, instance \in InstanceURLs,
          config_file \in ConfigFileArgs, answer \in Answers :
        LET args == [admin_key |-> manager.admin_key, instance |-> instance,
                     action |-> action, config_file |-> config_file]
            run  == main(args, answer)
        IN  /\ call' = [op |-> "main", instance_urls |-> <<instance>>,
                        config |-> NoConfig, args |-> args]
            /\ trace' = run.events
            /\ raised' = IF run.completion.kind = "raise" THEN run.completion.type ELSE ""
    /\ pc' = "exit"
    /\ ret' = "None"
    /\ UNCHANGED <<manager, i, results>>

Next ==
    \/ Ping
    \/ HealthCheck
    \/ SystemInfo
    \/ DeployIntegration
    \/ ExecuteMigration
    \/ BulkHealthCheckStart
    \/ BulkHealthCheckIteration
    \/ BulkHealthCheckReturn
    \/ BulkDeployIntegrationStart
    \/ BulkDeployIntegrationIteration
    \/ BulkDeployIntegrationReturn
    \/ NextCall
    \/ Main

Spec == Init /\ [][Next]_vars

(***************************************************************************)
(* Reading the trace                                                       *)
(***************************************************************************)
IsRequest(e) == e.kind = "request"

IsCompleted(e) == e.kind = "completed"

Requests(tr) == SelectSeq(tr, IsRequest)

Completions(tr) == SelectSeq(tr, IsCompleted)

SingleOps == {"ping", "health_check", "system_info", "deploy_integration",
              "execute_migration"}

BulkOps == {"bulk_health_check", "bulk_deploy_integration"}

\* The method and path the specification's table gives each operation.
TableMethod(op) ==
    IF op \in {"ping", "health_check", "system_info", "bulk_health_check",
               "health", "info"}
    THEN "GET" ELSE "POST"

TablePath(op) ==
    CASE op = "ping" -> "/api/admin/ping"
      [] op \in {"health_check", "bulk_health_check", "health"} -> "/api/admin/health"
      [] op \in {"system_info", "info"} -> "/api/admin/info"
      [] op \in {"deploy_integration", "bulk_deploy_integration", "deploy"}
            -> "/api/admin/integrations/deploy"
      [] op \in {"execute_migration", "migrate"} -> "/api/admin/migrations/execute"

Is2xx(status_code) == 200 <= status_code /\ status_code <= 299

IsFailure(completion) ==
    /\ completion.kind = "return"
    /\ completion.value.status = "error"

IsSuccess(completion) ==
    /\ completion.kind = "return"
    /\ completion.value.status = "success"

\* The bulk operation in call has returned.
BulkReturned == call.op \in BulkOps /\ pc = "returned"

\* The number of loop passes completed by the bulk operation in call.
PassesDone == IF pc = call.op THEN i - 1 ELSE Len(call.instance_urls)

Distinct(seq) == \A a, b \in 1..Len(seq) : seq[a] = seq[b] => a = b

Range(seq) == {seq[k] : k \in 1..Len(seq)}

\* The last position of url in seq.
LastIndex(seq, url) ==
    CHOOSE k \in 1..Len(seq) : seq[k] = url /\ \A m \in (k + 1)..Len(seq) : seq[m] # url

\* seq without the repeated occurrences of an element, first occurrences kept.
RECURSIVE FirstOccurrences(_)
FirstOccurrences(seq) ==
    IF seq = <<>> THEN <<>>
    ELSE LET front == FirstOccurrences(SubSeq(seq, 1, Len(seq) - 1))
             last  == seq[Len(seq)]
         IN  IF last \in Range(front) THEN front ELSE Append(front, last)

(***************************************************************************)
(* C1: for each of the five operations, a response whose status is outside *)
(* 200-299 (1xx and 3xx included) makes the operation return a Failure     *)
(* with a non-empty message, never a Success and never a raised error.     *)
(* The statement of the claim; the code breaks it (304 with a JSON body).  *)
(***************************************************************************)
C1_NonSuccessStatusIsFailure ==
    \A k \in 1..Len(trace) :
        (/\ trace[k].kind = "request"
         /\ trace[k].answer.kind = "response"
         /\ ~Is2xx(trace[k].answer.status_code))
        => /\ k < Len(trace)
           /\ trace[k + 1].kind = "completed"
           /\ IsFailure(trace[k + 1].completion)
           /\ trace[k + 1].completion.value.error # ""

(***************************************************************************)
(* C2: every operation ends in a returned Success or Failure and never in  *)
(* a raised error; a transport exception and a 2xx response whose body is  *)
(* no JSON both end in Failure.                                            *)
(***************************************************************************)
C2_FailuresAreReturned ==
    /\ call.op \in SingleOps \cup BulkOps => raised = "" /\ pc # "raised"
    /\ \A k \in 1..Len(trace) :
        trace[k].kind = "request"
        => /\ k < Len(trace)
           /\ trace[k + 1].kind = "completed"
           /\ \/ IsSuccess(trace[k + 1].completion)
              \/ IsFailure(trace[k + 1].completion)
           /\ (\/ trace[k].answer.kind = "exception"
               \/ ~IsJson(trace[k].answer.text))
              => IsFailure(trace[k + 1].completion)

C2_Witness ==
    /\ call.op = "execute_migration"
    /\ pc = "returned"
    /\ Len(trace) = 2
    /\ trace[1].answer.kind = "response"
    /\ trace[1].answer.status_code = 200
    /\ trace[1].answer.text = <<"<html>">>
    /\ ret.status = "error"

(***************************************************************************)
(* C3: a 2xx response with a JSON body makes the operation return Success  *)
(* whose data is the parsed JSON of that body.                             *)
(***************************************************************************)
C3_SuccessCarriesParsedBody ==
    \A k \in 1..Len(trace) :
        (/\ trace[k].kind = "request"
         /\ trace[k].answer.kind = "response"
         /\ Is2xx(trace[k].answer.status_code)
         /\ IsJson(trace[k].answer.text))
        => /\ k < Len(trace)
           /\ trace[k + 1].kind = "completed"
           /\ trace[k + 1].completion =
                 Return([status |-> "success", data |-> loads(trace[k].answer.text)])

C3_Witness ==
    /\ call.op = "deploy_integration"
    /\ pc = "returned"
    /\ trace[1].answer.status_code = 201
    /\ trace[1].answer.text = <<"{", "success", "data", "}">>
    /\ ret = [status |-> "success", data |-> JsonObject(<<"success", "data">>)]

(***************************************************************************)
(* C4: a bulk operation over a list of distinct instance URLs calls the    *)
(* single-instance operation once per instance in the supplied order,      *)
(* whatever fails, and returns a map whose keys are exactly the supplied   *)
(* URLs, each mapped to the outcome of the call made to that URL.          *)
(***************************************************************************)
C4_BulkIsolation ==
    (call.op \in BulkOps /\ Distinct(call.instance_urls))
    => /\ pc # "raised"
       /\ Len(Requests(trace)) = PassesDone
       /\ \A k \in 1..PassesDone :
            Requests(trace)[k].request.url = call.instance_urls[k] \o TablePath(call.op)
       /\ BulkReturned
          => /\ Range(Keys(ret)) = Range(call.instance_urls)
             /\ Len(ret) = Len(call.instance_urls)
             /\ \A k \in 1..Len(call.instance_urls) :
                  \E m \in 1..Len(ret) :
                     /\ ret[m].key = call.instance_urls[k]
                     /\ Return(ret[m].value) = Completions(trace)[k].completion

C4_Witness ==
    /\ BulkReturned
    /\ call.op = "bulk_health_check"
    /\ Len(call.instance_urls) = 3
    /\ Distinct(call.instance_urls)
    /\ ret[1].value.status = "success"
    /\ ret[2].value.status = "error"
    /\ ret[3].value.status = "success"

(***************************************************************************)
(* C5 as stated: the returned BulkResult holds one entry per supplied      *)
(* instance reference, duplicates included, in the supplied order.         *)
(***************************************************************************)
C5_OneEntryPerReference ==
    BulkReturned
    => /\ Len(ret) = Len(call.instance_urls)
       /\ Keys(ret) = call.instance_urls
       /\ \A k \in 1..Len(call.instance_urls) :
            Return(ret[k].value) = Completions(trace)[k].completion

(***************************************************************************)
(* C5 as amended: one call is made per supplied reference, duplicates      *)
(* included; the returned map holds one entry per distinct reference, in   *)
(* the order of first occurrence, mapped to the outcome of the last call   *)
(* made to that reference.                                                 *)
(***************************************************************************)
C5_OneEntryPerDistinctReference ==
    BulkReturned
    => /\ Len(Completions(trace)) = Len(call.instance_urls)
       /\ Keys(ret) = FirstOccurrences(call.instance_urls)
       /\ \A m \in 1..Len(ret) :
            Return(ret[m].value) =
               Completions(trace)[LastIndex(call.instance_urls, ret[m].key)].completion

C5_Witness ==
    /\ BulkReturned
    /\ Len(call.instance_urls) = 3
    /\ call.instance_urls[1] = call.instance_urls[3]
    /\ call.instance_urls[1] # call.instance_urls[2]
    /\ IsFailure(Completions(trace)[1].completion)
    /\ IsSuccess(Completions(trace)[3].completion)
    /\ Len(ret) = 2
    /\ ret[1].key = call.instance_urls[1]
    /\ ret[1].value.status = "success"

(***************************************************************************)
(* C6: main() run with action deploy or migrate and no --config-file       *)
(* prints the usage message and sends no request; with action ping, health *)
(* or info it sends exactly one request, to the supplied instance, whether *)
(* or not a config file is given.                                          *)
(***************************************************************************)
C6_MainWithoutConfigFile ==
    call.op = "main"
    => /\ (call.args.action \in {"deploy", "migrate"} /\ ~call.args.config_file.given)
          => /\ trace = <<[kind |-> "print",
                           text |-> "--config-file required for "
                                    \o call.args.action \o " action"]>>
             /\ raised = ""
       /\ call.args.action \in {"ping", "health", "info"}
          => /\ Len(Requests(trace)) = 1
             /\ Requests(trace)[1].request.url =
                   call.args.instance \o TablePath(call.args.action)

C6_Witness ==
    /\ call.op = "main"
    /\ pc = "exit"
    /\ call.args.action = "migrate"
    /\ ~call.args.config_file.given
    /\ Len(trace) = 1
    /\ trace[1].kind = "print"

(***************************************************************************)
(* C7: the config given to deploy_integration, execute_migration or        *)
(* bulk_deploy_integration is the body of every request the operation      *)
(* sends: parsing the body gives the caller's config back, for every       *)
(* instance of a bulk deployment and whatever the earlier calls returned.  *)
(***************************************************************************)
C7_ConfigSentVerbatim ==
    call.op \in {"deploy_integration", "execute_migration", "bulk_deploy_integration"}
    => /\ Len(Requests(trace)) = PassesDone
       /\ \A k \in 1..Len(Requests(trace)) :
            /\ Requests(trace)[k].request.method = "POST"
            /\ IsJson(Requests(trace)[k].request.body)
            /\ loads(Requests(trace)[k].request.body) = call.config

C7_Witness ==
    /\ BulkReturned
    /\ call.op = "bulk_deploy_integration"
    /\ Len(call.instance_urls) = 3
    /\ IsFailure(Completions(trace)[1].completion)
    /\ IsFailure(Completions(trace)[2].completion)
    /\ loads(Requests(trace)[3].request.body) = call.config
    /\ call.config = JsonObject(<<"integrationName", "version", "defaultConfig">>)

(***************************************************************************)
(* C8: in both bulk operations the trace is notice(u1), call(u1),          *)
(* notice(u2), call(u2), ... in the supplied order: one notice naming the  *)
(* instance right before the request to it and after the previous call     *)
(* completed, also when calls fail.                                        *)
(***************************************************************************)
C8_NoticeBeforeEachCall ==
    call.op \in BulkOps
    => /\ Len(trace) = 3 * PassesDone
       /\ \A k \in 1..PassesDone :
            /\ trace[3 * k - 2].kind = "print"
            /\ trace[3 * k - 2].text =
                  (IF call.op = "bulk_health_check" THEN "Checking health for "
                   ELSE "Deploying integration to ") \o call.instance_urls[k] \o "..."
            /\ trace[3 * k - 1].kind = "request"
            /\ trace[3 * k - 1].request.url = call.instance_urls[k] \o TablePath(call.op)
            /\ trace[3 * k].kind = "completed"

C8_Witness ==
    /\ BulkReturned
    /\ call.op = "bulk_deploy_integration"
    /\ Len(call.instance_urls) = 3
    /\ Len(trace) = 9
    /\ IsFailure(trace[3].completion)
    /\ trace[4].kind = "print"
    /\ trace[5].kind = "request"

(***************************************************************************)
(* C9: a single-instance operation sends exactly one request, with the     *)
(* method and path of the operation under the supplied base URL, also when *)
(* it fails; a bulk operation over n instances sends exactly n requests.   *)
(***************************************************************************)
C9_OneRequestPerCall ==
    /\ call.op \in SingleOps
       => /\ Len(Requests(trace)) = 1
          /\ Requests(trace)[1].request.method = TableMethod(call.op)
          /\ Requests(trace)[1].request.url = call.instance_urls[1] \o TablePath(call.op)
    /\ call.op \in BulkOps
       => /\ Len(Requests(trace)) = PassesDone
          /\ \A k \in 1..Len(Requests(trace)) :
               Requests(trace)[k].request.method = TableMethod(call.op)

C9_Witness ==
    /\ call.op = "system_info"
    /\ pc = "returned"
    /\ ret.status = "error"
    /\ Len(Requests(trace)) = 1
    /\ trace[1].answer.kind = "exception"
    /\ trace[1].answer.type = "Timeout"

(***************************************************************************)
(* C10: no operation changes the credential or the headers derived from it *)
(* at construction, and every request of every call carries Authorization  *)
(* 'Admin <credential>' and Content-Type 'application/json'.               *)
(***************************************************************************)
HeadersAsConstructed ==
    /\ manager.headers = [Authorization |-> "Admin " \o manager.admin_key,
                          ContentType   |-> "application/json"]
    /\ \A k \in 1..Len(trace) :
         trace[k].kind = "request" => trace[k].request.headers = manager.headers

C10_CredentialAndHeadersFixed == []HeadersAsConstructed /\ [][manager' = manager]_vars

C10_Witness ==
    /\ BulkReturned
    /\ Len(call.instance_urls) = 3
    /\ manager.admin_key = "key-B"
    /\ IsFailure(Completions(trace)[1].completion)
    /\ Requests(trace)[3].request.headers.Authorization = "Admin key-B"

====
